---- MODULE Spec2Model ----
(***************************************************************************)
(* Model of the OpenAQ collector of AbhigyanD/Pollution:                   *)
(*   src/src/data/data_collector.py  AirQualityDataCollector and main()    *)
(*   src/src/data/list_locations.py  the directory-listing script          *)
(*                                                                         *)
(* Three specifications share one set of variables:                        *)
(*   Spec         one call of fetch_air_quality_data (page loop + reshape) *)
(*   SpecProcess  _process_data applied to a raw table, then to its output *)
(*   SpecMain     the two OpenAQ entry points (main() and list_locations)  *)
(*                                                                         *)
(* A DataFrame is [columns : set of column names, rows : sequence of       *)
(* records whose fields are the columns].  Measurement values are integers *)
(* and a mean is the exact rational <<numerator, denominator>> in lowest   *)
(* terms (floating-point rounding is not modelled); NaN is <<0, 0>>.       *)
(***************************************************************************)
EXTENDS Integers, Sequences, FiniteSets, TLC

VARIABLES
    \* fetch_air_quality_data: arguments, locals, and the log of requests
    parameters, max_pages, pidx, page, total_results, all_data, requests,
    pc, result,
    \* _process_data harness: input table, first and second result
    df, out, out2, ppc,
    \* entry points: which script runs, the environment, main()'s locals
    entry, api_key, mpc, city_i, locations, loc_i, http_calls, files,
    last_outcome, exit_status

vars == <<parameters, max_pages, pidx, page, total_results, all_data,
          requests, pc, result, df, out, out2, ppc, entry, api_key, mpc,
          city_i, locations, loc_i, http_calls, files, last_outcome,
          exit_status>>

fetchVars == <<parameters, max_pages, pidx, page, total_results, all_data,
               requests, pc, result>>
processVars == <<df, out, out2, ppc>>
mainVars == <<entry, api_key, mpc, city_i, locations, loc_i, http_calls,
              files, last_outcome, exit_status>>

----------------------------------------------------------------------------
(* Bounds of the model *)

MaxRows == 3      \* rows of a raw table in SpecProcess
MaxParams == 2    \* length of the parameter list in Spec
MaxPagesArg == 2  \* largest max_pages argument in Spec
MaxLocs == 2      \* locations one lookup returns in SpecMain

(* Program constants *)
PageSize == 100   \* 'limit': 100 and the len(results) < 100 test

----------------------------------------------------------------------------
(* Tables *)

NaN == <<0, 0>>

EmptyFrame == [columns |-> {}, rows |-> <<>>]

IsEmpty(d) == d.columns = {} \/ Len(d.rows) = 0

IndexNames == {"date", "location", "city", "country"}

RequiredColumns == IndexNames \cup {"parameter", "value", "unit"}

\* The strings that can appear in a row index, in Python's string order.
StrOrder == <<"Chicago", "Downtown", "Harbor", "Los Angeles", "US",
              "o3", "pm25">>

Rank(s) == CHOOSE i \in 1..Len(StrOrder) : StrOrder[i] = s

\* lambda x: x['utc'] if isinstance(x, dict) and 'utc' in x else x
DateText(x) == IF x.isdict THEN x.utc ELSE x.text

\* pd.to_datetime on the timestamp texts the model uses: hours after
\* 2024-01-01T00:00 UTC.  Two spellings of one instant parse equal.
ParseTimestamp(s) ==
    CASE s = "2024-01-01T00:00:00Z" -> 0
      [] s = "2024-01-01T00:00:00+00:00" -> 0
      [] s = "2024-01-01T01:00:00Z" -> 1
      [] s = "2024-01-01T02:00:00Z" -> 2

ToDatetime(x) == ParseTimestamp(DateText(x))

RECURSIVE Gcd(_, _)
Gcd(a, b) == IF b = 0 THEN a ELSE Gcd(b, a % b)

RECURSIVE SumRange(_, _, _)
SumRange(s, lo, hi) ==
    IF lo > hi THEN 0
    ELSE IF lo = hi THEN s[lo]
    ELSE LET mid == (lo + hi) \div 2
         IN SumRange(s, lo, mid) + SumRange(s, mid + 1, hi)

RECURSIVE MaxRange(_, _, _)
MaxRange(s, lo, hi) ==
    IF lo = hi THEN s[lo]
    ELSE LET mid == (lo + hi) \div 2
             a == MaxRange(s, lo, mid)
             b == MaxRange(s, mid + 1, hi)
         IN IF a >= b THEN a ELSE b

\* A plausible slip: aggfunc='max' instead of 'mean'.
AggMax(vals) ==
    IF Len(vals) = 0 THEN NaN ELSE <<MaxRange(vals, 1, Len(vals)), 1>>

\* aggfunc='mean': the mean of a group's values, NaN for an empty group.
AggMean(vals) ==
    IF Len(vals) = 0 THEN NaN
    ELSE LET s == SumRange(vals, 1, Len(vals))
             n == Len(vals)
             g == Gcd(s, n)
         IN <<s \div g, n \div g>>

\* A plausible slip: 'parameter' added to the pivot index.
PivotIndexWithParameter(r) ==
    <<r.date, r.location, r.city, r.country, r.parameter>>

\* index=['date', 'location', 'city', 'country']
PivotIndex(r) == <<r.date, r.location, r.city, r.country>>

\* A plausible slip: columns='unit' instead of columns='parameter'.
PivotColumnsByUnit(rows) == {rows[i].unit : i \in DOMAIN rows}

\* columns='parameter'
PivotColumns(rows) == {rows[i].parameter : i \in DOMAIN rows}

LessAt(k, a, b) == IF k = 1 THEN a < b ELSE Rank(a) < Rank(b)

IndexLess(a, b) ==
    \E k \in 1..Len(a) :
        /\ \A j \in 1..(k - 1) : a[j] = b[j]
        /\ LessAt(k, a[k], b[k])

\* The group keys in the sorted order groupby gives them.
RECURSIVE SortIndex(_)
SortIndex(S) ==
    IF S = {} THEN <<>>
    ELSE LET m == CHOOSE x \in S : \A y \in S \ {x} : IndexLess(x, y)
         IN <<m>> \o SortIndex(S \ {m})

\* df[[...]].copy() with the date column converted by pd.to_datetime
Select(d) ==
    [i \in DOMAIN d.rows |->
        [c \in RequiredColumns |->
            IF c = "date" THEN ToDatetime(d.rows[i].date)
            ELSE d.rows[i][c]]]

\* pivot_table(index=..., columns='parameter', values='value',
\*             aggfunc='mean').reset_index()
PivotTable(rows) ==
    LET groups == SortIndex({PivotIndex(rows[i]) : i \in DOMAIN rows})
        cols == PivotColumns(rows)
        Cell(g, c) ==
            LET InCell(r) == c \in PivotColumns(<<r>>) /\ PivotIndex(r) = g
                hit == SelectSeq(rows, InCell)
            IN AggMean([i \in DOMAIN hit |-> hit[i].value])
        Row(g) ==
            [c \in IndexNames \cup cols |->
                CASE c = "date" -> g[1]
                  [] c = "location" -> g[2]
                  [] c = "city" -> g[3]
                  [] c = "country" -> g[4]
                  [] OTHER -> Cell(g, c)]
    IN [columns |-> IndexNames \cup cols,
        rows |-> [k \in DOMAIN groups |-> Row(groups[k])]]

Returned(v) == [raised |-> "none", value |-> v]
Raised(e) == [raised |-> e, value |-> EmptyFrame]

\* A plausible slip: a table that lacks the long-form columns is passed
\* through instead of failing the column selection.
ProcessDataPassThrough(d) ==
    IF IsEmpty(d) \/ ~(RequiredColumns \subseteq d.columns) THEN Returned(d)
    ELSE Returned(PivotTable(Select(d)))

\* _process_data: the selection df[[...]] raises KeyError when a column
\* is missing.
ProcessData(d) ==
    IF IsEmpty(d) THEN Returned(d)
    ELSE IF ~(RequiredColumns \subseteq d.columns) THEN Raised("KeyError")
    ELSE Returned(PivotTable(Select(d)))

----------------------------------------------------------------------------
(* What the measurements endpoint can put in a row *)

Params == {"pm25", "o3"}

Unit(p) == IF p = "pm25" THEN "ug/m3" ELSE "ppm"

DateCells ==
    { [isdict |-> TRUE, utc |-> "2024-01-01T00:00:00Z"],
      [isdict |-> FALSE, text |-> "2024-01-01T00:00:00+00:00"],
      [isdict |-> FALSE, text |-> "2024-01-01T01:00:00Z"] }

Locations == {"Downtown", "Harbor"}

Values == {10, 20}

\* One long-form row as fetch_air_quality_data accumulates it.
RawRow(d, p, v, l) ==
    [date |-> d, parameter |-> p, value |-> v, unit |-> Unit(p),
     location |-> l, city |-> "Los Angeles", country |-> "US"]

RawRows ==
    { RawRow(d, p, v, l) : d \in DateCells, p \in Params, v \in Values,
                           l \in Locations }

RawFrames ==
    { [columns |-> RequiredColumns, rows |-> r] :
        r \in UNION { [1..n -> RawRows] : n \in 0..MaxRows } }

----------------------------------------------------------------------------
(* SpecProcess: _process_data on a raw table, then on its own output *)

NoResult == Raised("not called")

NoLookup == [kind |-> "none", status |-> 0, n |-> 0, raised |-> "none"]

FetchIdle ==
    /\ parameters = <<>> /\ max_pages = 0 /\ pidx = 1 /\ page = 1
    /\ total_results = 0 /\ all_data = <<>> /\ requests = <<>>
    /\ pc = "idle" /\ result = NoResult

ProcessIdle ==
    /\ df = EmptyFrame /\ out = NoResult /\ out2 = NoResult /\ ppc = "idle"

MainIdle ==
    /\ entry = "none" /\ api_key = "absent" /\ mpc = "idle" /\ city_i = 1
    /\ locations = <<>> /\ loc_i = 1 /\ http_calls = 0 /\ files = {}
    /\ last_outcome = NoLookup /\ exit_status = "running"

InitProcess ==
    /\ df \in RawFrames
    /\ out = NoResult /\ out2 = NoResult /\ ppc = "input"
    /\ FetchIdle /\ MainIdle

\* processed_df = self._process_data(combined_df)
Process ==
    /\ ppc = "input"
    /\ out' = ProcessData(df)
    /\ ppc' = "processed"
    /\ UNCHANGED <<df, out2, fetchVars, mainVars>>

\* _process_data applied to the table it returned
Reprocess ==
    /\ ppc = "processed" /\ out.raised = "none"
    /\ out2' = ProcessData(out.value)
    /\ ppc' = "reprocessed"
    /\ UNCHANGED <<df, out, fetchVars, mainVars>>

NextProcess == Process \/ Reprocess

SpecProcess == InitProcess /\ [][NextProcess]_vars

----------------------------------------------------------------------------
(* Spec: one call of fetch_air_quality_data *)

\* What one GET of the measurements endpoint can come to: a transport or
\* HTTP error (requests.get or raise_for_status raises RequestException)
\* or a body with n result rows.
RowCounts == {0, PageSize - 1, PageSize}

Responses ==
    {[error |-> TRUE, n |-> 0]} \cup {[error |-> FALSE, n |-> k] : k \in RowCounts}

DateSeq ==
    << [isdict |-> TRUE, utc |-> "2024-01-01T00:00:00Z"],
       [isdict |-> FALSE, text |-> "2024-01-01T00:00:00+00:00"],
       [isdict |-> FALSE, text |-> "2024-01-01T01:00:00Z"] >>

\* The rows the server sends for parameter p, page pg, when it sends n of
\* them: data.get('results', []).  A row carries no 'parameter' field.
ServerRows(p, pg, n) ==
    [i \in 1..n |->
        [date |-> DateSeq[((i + pg) % 3) + 1],
         value |-> IF (i + pg) % 2 = 0 THEN 10 ELSE 20,
         unit |-> Unit(p),
         location |-> IF i % 2 = 0 THEN "Downtown" ELSE "Harbor",
         city |-> "Los Angeles",
         country |-> "US"]]

\* pd.DataFrame(results)
Frame(results) ==
    [columns |-> IF Len(results) = 0 THEN {} ELSE DOMAIN results[1],
     rows |-> results]

\* df['parameter'] = parameter
WithParameter(d, p) ==
    [columns |-> d.columns \cup {"parameter"},
     rows |-> [i \in DOMAIN d.rows |->
                 [c \in d.columns \cup {"parameter"} |->
                     IF c = "parameter" THEN p ELSE d.rows[i][c]]]]

\* A plausible slip: page <= max_pages + 1.
LoopGuardOffByOne(pg, mp) == pg <= mp + 1

\* while page <= max_pages
LoopGuard(pg, mp) == pg <= mp

Outcome(b, f, r) == [brk |-> b, frames |-> f, raised |-> r]

\* A plausible slip: the short-page test placed before the append, so the
\* last page is dropped.
LoopBodyDropsLastPage(p, pg, resp) ==
    IF resp.error THEN Outcome(TRUE, <<>>, "none")
    ELSE LET results == ServerRows(p, pg, resp.n)
         IN IF Len(results) < PageSize THEN Outcome(TRUE, <<>>, "none")
            ELSE Outcome(FALSE, <<WithParameter(Frame(results), p)>>, "none")

\* A plausible slip: no except clause, the request error propagates.
LoopBodyNoCatch(p, pg, resp) ==
    IF resp.error THEN Outcome(TRUE, <<>>, "RequestException")
    ELSE LET results == ServerRows(p, pg, resp.n)
             d == Frame(results)
         IN IF Len(results) = 0 THEN Outcome(TRUE, <<>>, "none")
            ELSE Outcome(Len(results) < PageSize,
                         IF IsEmpty(d) THEN <<>> ELSE <<WithParameter(d, p)>>,
                         "none")

\* A plausible slip: an empty page ends the whole call instead of only
\* this parameter's loop (results[0] read before the emptiness test).
LoopBodyEmptyRaises(p, pg, resp) ==
    IF resp.error THEN Outcome(TRUE, <<>>, "none")
    ELSE LET results == ServerRows(p, pg, resp.n)
             d == Frame(results)
         IN IF Len(results) = 0 THEN Outcome(TRUE, <<>>, "IndexError")
            ELSE Outcome(Len(results) < PageSize,
                         IF IsEmpty(d) THEN <<>> ELSE <<WithParameter(d, p)>>,
                         "none")

\* One iteration of the while loop for parameter p, page pg, given what
\* the request came to: whether the loop breaks, the frame appended to
\* all_data (if any), and the exception that leaves the function (none:
\* RequestException is caught and breaks the loop).
LoopBody(p, pg, resp) ==
    IF resp.error THEN Outcome(TRUE, <<>>, "none")
    ELSE LET results == ServerRows(p, pg, resp.n)
             d == Frame(results)
         IN IF Len(results) = 0 THEN Outcome(TRUE, <<>>, "none")
            ELSE Outcome(Len(results) < PageSize,
                         IF IsEmpty(d) THEN <<>> ELSE <<WithParameter(d, p)>>,
                         "none")

RECURSIVE Concat(_)
\* pd.concat(all_data, ignore_index=True)
Concat(frames) ==
    IF Len(frames) = 0 THEN EmptyFrame
    ELSE LET rest == Concat(Tail(frames))
         IN [columns |-> Head(frames).columns \cup rest.columns,
             rows |-> Head(frames).rows \o rest.rows]

\* if not all_data: return pd.DataFrame(); else concat and _process_data
Finish(frames) ==
    IF Len(frames) = 0 THEN Returned(EmptyFrame)
    ELSE ProcessData(Concat(frames))

ParameterLists == UNION { [1..n -> Params] : n \in 0..MaxParams }

Init ==
    /\ parameters \in ParameterLists
    /\ max_pages \in (-1)..MaxPagesArg
    /\ pidx = 1 /\ page = 1 /\ total_results = 0
    /\ all_data = <<>> /\ requests = <<>>
    /\ pc = "paging" /\ result = NoResult
    /\ ProcessIdle /\ MainIdle

\* One pass through the while body: one GET and what follows from it.
Request ==
    /\ pc = "paging" /\ pidx <= Len(parameters)
    /\ LoopGuard(page, max_pages)
    /\ \E resp \in Responses :
          LET p == parameters[pidx]
              o == LoopBody(p, page, resp)
          IN /\ requests' = Append(requests,
                     [idx |-> pidx, parameter |-> p, page |-> page,
                      error |-> resp.error, n |-> resp.n])
             /\ all_data' = all_data \o o.frames
             /\ IF o.raised # "none"
                THEN /\ pc' = "raised" /\ result' = Raised(o.raised)
                     /\ UNCHANGED <<pidx, page, total_results>>
                ELSE /\ UNCHANGED <<pc, result>>
                     /\ IF o.brk
                        THEN pidx' = pidx + 1 /\ page' = 1 /\ total_results' = 0
                        ELSE /\ page' = page + 1
                             /\ total_results' = total_results
                                  + (IF Len(o.frames) = 0 THEN 0
                                     ELSE Len(o.frames[1].rows))
                             /\ UNCHANGED pidx
    /\ UNCHANGED <<parameters, max_pages, processVars, mainVars>>

\* The while condition fails: the for loop goes on to the next parameter.
PageCap ==
    /\ pc = "paging" /\ pidx <= Len(parameters)
    /\ ~LoopGuard(page, max_pages)
    /\ pidx' = pidx + 1 /\ page' = 1 /\ total_results' = 0
    /\ UNCHANGED <<parameters, max_pages, all_data, requests, pc, result,
                   processVars, mainVars>>

\* After the for loop: the empty table, or the reshaped accumulation.
Return ==
    /\ pc = "paging" /\ pidx > Len(parameters)
    /\ LET r == Finish(all_data)
       IN /\ result' = r
          /\ pc' = IF r.raised = "none" THEN "returned" ELSE "raised"
    /\ UNCHANGED <<parameters, max_pages, pidx, page, total_results,
                   all_data, requests, processVars, mainVars>>

Next == Request \/ PageCap \/ Return

Spec == Init /\ [][Next]_vars

----------------------------------------------------------------------------
(* Claims about fetch_air_quality_data (Spec).  "Parameter" is an entry   *)
(* of the parameter list: requests are counted per entry, which on a list *)
(* without repeated codes is per parameter code.                          *)

Entries == 1..Len(parameters)

\* The positions in the request log of the requests for list entry j.
ReqsOf(j) == {k \in DOMAIN requests : requests[k].idx = j}

LastFor(k) ==
    \A m \in DOMAIN requests : requests[m].idx = requests[k].idx => m <= k

\* The frame a logged response contributes.
FrameOf(e) == WithParameter(Frame(ServerRows(e.parameter, e.page, e.n)), e.parameter)

FramesOf(log) ==
    LET HasRows(e) == ~e.error /\ e.n > 0
        ok == SelectSeq(log, HasRows)
    IN [k \in DOMAIN ok |-> FrameOf(ok[k])]

\* C1: in one call, the number of measurements requests issued for each
\* parameter of the list is at most max_pages, and zero when
\* max_pages <= 0, whatever the server answers.
C1_AtMostMaxPages ==
    \A j \in Entries :
        Cardinality(ReqsOf(j)) <= (IF max_pages <= 0 THEN 0 ELSE max_pages)

C1_Witness ==
    /\ pc = "returned" /\ max_pages = 2 /\ Len(parameters) = 2
    /\ Cardinality(ReqsOf(1)) = 2 /\ Cardinality(ReqsOf(2)) = 2

\* C2: for each parameter the pages requested are 1, 2, 3, ... in order;
\* after a page with fewer than 100 rows no later page of that parameter
\* is requested; the rows of that page and of every full page before it
\* are in the accumulated data; and paging does not stop before such a
\* page unless a request fails or the page cap is reached.
C2_StopsAtShortPage ==
    /\ \A k \in DOMAIN requests :
          /\ requests[k].page
               = Cardinality({m \in ReqsOf(requests[k].idx) : m <= k})
          /\ (~requests[k].error /\ requests[k].n < PageSize) => LastFor(k)
    /\ all_data = FramesOf(requests)
    /\ pc = "returned" =>
          \A j \in Entries :
              max_pages >= 1 =>
                  \E k \in ReqsOf(j) :
                      /\ LastFor(k)
                      /\ \/ requests[k].error
                         \/ requests[k].n < PageSize
                         \/ requests[k].page = max_pages

C2_Witness ==
    /\ pc = "returned" /\ max_pages = 2 /\ Len(parameters) = 2
    /\ \E k \in ReqsOf(1) :
          requests[k].page = 1 /\ ~requests[k].error
          /\ requests[k].n = PageSize - 1
    /\ Cardinality(ReqsOf(1)) = 1
    /\ \E k \in ReqsOf(2) :
          requests[k].page = 2 /\ ~requests[k].error
          /\ requests[k].n = PageSize - 1
    /\ Len(all_data) = 3
    /\ Len(all_data[1].rows) = PageSize - 1
    /\ Len(all_data[2].rows) = PageSize

\* C3: a failed request for parameter p ends only p's page loop: no
\* further request is issued for p, every later parameter of the list is
\* still paged from page 1, and the call returns a table, it never
\* raises.
C3_ErrorEndsOnlyThatParameter ==
    /\ \A k \in DOMAIN requests : requests[k].error => LastFor(k)
    /\ pc # "raised"
    /\ pc = "returned" =>
          /\ result.raised = "none"
          /\ \A k \in DOMAIN requests :
                requests[k].error =>
                    \A j \in Entries :
                        (j > requests[k].idx /\ max_pages >= 1) =>
                            \E m \in ReqsOf(j) :
                                m > k /\ requests[m].page = 1

C3_Witness ==
    /\ pc = "returned" /\ result.raised = "none"
    /\ Len(parameters) = 2
    /\ \E k \in ReqsOf(1) : requests[k].error /\ requests[k].page = 2
    /\ \E m \in ReqsOf(2) : requests[m].page = 1 /\ requests[m].n = PageSize
    /\ ~IsEmpty(result.value)

\* The call replayed on the list entries L (positions of the original
\* list), every request answered as the log recorded it.
RECURSIVE Replay(_, _, _, _, _)
Replay(L, k, pg, frames, reqs) ==
    IF k > Len(L)
    THEN [ok |-> TRUE, all_data |-> frames, requests |-> reqs]
    ELSE IF ~LoopGuard(pg, max_pages)
    THEN Replay(L, k + 1, 1, frames, reqs)
    ELSE LET hits == {h \in ReqsOf(L[k]) : requests[h].page = pg}
         IN IF hits = {}
            THEN [ok |-> FALSE, all_data |-> frames, requests |-> reqs]
            ELSE LET e == requests[CHOOSE h \in hits : TRUE]
                     o == LoopBody(parameters[L[k]], pg,
                                   [error |-> e.error, n |-> e.n])
                 IN IF o.raised # "none"
                    THEN [ok |-> FALSE, all_data |-> frames, requests |-> reqs]
                    ELSE Replay(L, IF o.brk THEN k + 1 ELSE k,
                                IF o.brk THEN 1 ELSE pg + 1,
                                frames \o o.frames, Append(reqs, e))

FirstPageEmpty(j) ==
    \E k \in ReqsOf(j) :
        requests[k].page = 1 /\ ~requests[k].error /\ requests[k].n = 0

Without(j) ==
    LET NotJ(i) == i # j
    IN SelectSeq([i \in Entries |-> i], NotJ)

\* C4: a parameter whose first page is empty adds no row to the
\* accumulated data; the requests issued and the rows accumulated for the
\* other parameters are those of the same call without that parameter in
\* the list; the call does not fail.
C4_EmptyParameterIsNeutral ==
    /\ (\E j \in Entries : FirstPageEmpty(j)) => pc # "raised"
    /\ pc = "returned" =>
          \A j \in Entries :
              FirstPageEmpty(j) =>
                  LET r == Replay(Without(j), 1, 1, <<>>, <<>>)
                      NotJ(e) == e.idx # j
                  IN /\ Cardinality(ReqsOf(j)) = 1
                     /\ r.ok
                     /\ r.all_data = all_data
                     /\ r.requests = SelectSeq(requests, NotJ)
                     /\ result.raised = "none"

C4_Witness ==
    /\ pc = "returned" /\ Len(parameters) = 2 /\ max_pages = 2
    /\ FirstPageEmpty(1)
    /\ Cardinality(ReqsOf(2)) = 2
    /\ Len(all_data) = 2
    /\ ~IsEmpty(result.value)

\* The parameters for which at least one row was accumulated.
Productive ==
    {requests[k].parameter :
        k \in {m \in DOMAIN requests : ~requests[m].error /\ requests[m].n > 0}}

\* C7: a non-empty table returned by fetch_air_quality_data has exactly
\* the four key columns plus one column for each parameter for which at
\* least one row was accumulated.
C7_ColumnsAreProductiveParameters ==
    (pc = "returned" /\ ~IsEmpty(result.value)) =>
        result.value.columns = IndexNames \cup Productive

C7_Witness ==
    /\ pc = "returned" /\ ~IsEmpty(result.value)
    /\ parameters = <<"pm25", "o3">>
    /\ \E k \in ReqsOf(2) : requests[k].error /\ requests[k].page = 1
    /\ result.value.columns = IndexNames \cup {"pm25"}

----------------------------------------------------------------------------
(* Claims about _process_data (SpecProcess) *)

RECURSIVE SumOver(_, _)
SumOver(f, S) ==
    IF S = {} THEN 0
    ELSE LET x == CHOOSE y \in S : TRUE IN f[x] + SumOver(f, S \ {x})

\* The raw rows of df that fall on output row o and parameter p.
RawAt(o, p) ==
    { i \in DOMAIN df.rows :
        /\ ToDatetime(df.rows[i].date) = o.date
        /\ df.rows[i].location = o.location
        /\ df.rows[i].city = o.city
        /\ df.rows[i].country = o.country
        /\ df.rows[i].parameter = p }

RawKeyOf(r) == <<ToDatetime(r.date), r.location, r.city, r.country>>

OutKeyOf(o) == <<o.date, o.location, o.city, o.country>>

Processed == ppc # "input" /\ out.raised = "none" /\ ~IsEmpty(df)

\* C5: in the table _process_data returns, every cell (composite key,
\* parameter) holds the arithmetic mean of the values of all raw rows
\* with that key and parameter (10 and 20 give 15); every raw row's key
\* and parameter has such a cell, so duplicates are averaged.
C5_CellIsMean ==
    Processed =>
        /\ \A i \in DOMAIN df.rows :
              \E k \in DOMAIN out.value.rows :
                  /\ OutKeyOf(out.value.rows[k]) = RawKeyOf(df.rows[i])
                  /\ df.rows[i].parameter \in out.value.columns
        /\ \A k \in DOMAIN out.value.rows :
              \A p \in out.value.columns \ IndexNames :
                  LET o == out.value.rows[k]
                      S == RawAt(o, p)
                      vals == [i \in S |-> df.rows[i].value]
                  IN IF S = {} THEN o[p] = NaN
                     ELSE /\ o[p][2] > 0
                          /\ o[p][1] * Cardinality(S)
                               = o[p][2] * SumOver(vals, S)

C5_Witness ==
    /\ Processed
    /\ \E i, j \in DOMAIN df.rows :
          /\ i # j
          /\ RawKeyOf(df.rows[i]) = RawKeyOf(df.rows[j])
          /\ df.rows[i].parameter = df.rows[j].parameter
          /\ df.rows[i].value = 10 /\ df.rows[j].value = 20
          /\ Len(df.rows) = 2
          /\ Len(out.value.rows) = 1
          /\ out.value.rows[1][df.rows[i].parameter] = <<15, 1>>

\* C6: the table _process_data returns has at most one row per composite
\* key (timestamp, location, city, country); raw rows of different
\* parameters at one key fill different columns of that single row.
C6_OneRowPerKey ==
    Processed =>
        /\ \A k, m \in DOMAIN out.value.rows :
              OutKeyOf(out.value.rows[k]) = OutKeyOf(out.value.rows[m])
                  => k = m
        /\ \A i, j \in DOMAIN df.rows :
              RawKeyOf(df.rows[i]) = RawKeyOf(df.rows[j]) =>
                  \E k \in DOMAIN out.value.rows :
                      /\ OutKeyOf(out.value.rows[k]) = RawKeyOf(df.rows[i])
                      /\ out.value.rows[k][df.rows[i].parameter] # NaN
                      /\ out.value.rows[k][df.rows[j].parameter] # NaN

C6_Witness ==
    /\ Processed
    /\ Len(df.rows) = 2
    /\ df.rows[1].parameter = "pm25" /\ df.rows[2].parameter = "o3"
    /\ RawKeyOf(df.rows[1]) = RawKeyOf(df.rows[2])
    /\ Len(out.value.rows) = 1
    /\ out.value.rows[1]["pm25"] # NaN /\ out.value.rows[1]["o3"] # NaN

\* C8 as stated: _process_data applied to its own output completes
\* without error and yields the same table.
C8_Idempotent ==
    ppc = "reprocessed" => out2 = Returned(out.value)

\* C8 amended: _process_data applied to its own output returns that
\* output unchanged only when the output is empty; on a non-empty output
\* (one row per key, one column per parameter) it raises KeyError, the
\* columns parameter, value and unit being absent.
C8_ReprocessRaises ==
    ppc = "reprocessed" =>
        IF IsEmpty(out.value) THEN out2 = Returned(out.value)
        ELSE out2 = Raised("KeyError")

C8_Witness ==
    /\ ppc = "reprocessed"
    /\ ~IsEmpty(out.value)
    /\ {"pm25", "o3"} \subseteq out.value.columns
    /\ out2.raised = "KeyError"

----------------------------------------------------------------------------
(* SpecMain: the OpenAQ entry points, main() of data_collector.py and the *)
(* script list_locations.py                                               *)

\* cities = ['Los Angeles', 'New York', 'Chicago']
Cities == <<"Los Angeles", "New York", "Chicago">>

\* parameters = ['pm25', 'pm10', 'o3', 'no2', 'so2', 'co']
DefaultParameters == <<"pm25", "pm10", "o3", "no2", "so2", "co">>

\* max_pages=10
DefaultMaxPages == 10

LocationNames == <<"Downtown", "Harbor", "Airport">>

\* What the GET of the locations endpoint can come to: requests.get raises
\* RequestException, or a response with a status and, on 200, a body
\* {results: [...]} of n locations.
LocationOutcomes ==
    {[kind |-> "exception", status |-> 0, n |-> 0]}
    \cup {[kind |-> "response", status |-> st, n |-> 0] : st \in {404, 500}}
    \cup {[kind |-> "response", status |-> 200, n |-> k] : k \in 0..MaxLocs}

\* response.raise_for_status(): HTTPError for a 4xx or 5xx status
RaisesForStatus(st) == 400 <= st /\ st < 600

\* data.get('results', [])
LocationResults(o) ==
    [i \in 1..o.n |-> [id |-> i, name |-> LocationNames[i]]]

ReturnedList(v) == [raised |-> "none", value |-> v]

\* A plausible slip: no except clause around the request.
GetLocationsNoCatch(o) ==
    IF o.kind = "exception" \/ RaisesForStatus(o.status)
    THEN [raised |-> "RequestException", value |-> <<>>]
    ELSE ReturnedList(LocationResults(o))

\* get_locations: what it returns (or raises) given what its one request
\* came to.
GetLocations(o) ==
    IF o.kind = "exception" THEN ReturnedList(<<>>)
    ELSE IF RaisesForStatus(o.status) THEN ReturnedList(<<>>)
    ELSE ReturnedList(LocationResults(o))

InitMain ==
    /\ entry \in {"collector", "list_locations"}
    /\ api_key \in {"absent", "present"}
    /\ mpc = "start" /\ city_i = 1 /\ locations = <<>> /\ loc_i = 1
    /\ http_calls = 0 /\ files = {} /\ last_outcome = NoLookup
    /\ exit_status = "running"
    /\ FetchIdle /\ ProcessIdle

\* list_locations.py, the whole script: the key is read and put in the
\* headers without a test, the GET is issued, and the status decides.
ListLocations ==
    /\ entry = "list_locations" /\ mpc = "start"
    /\ \E o \in LocationOutcomes :
          /\ http_calls' = http_calls + 1
          /\ last_outcome' = [kind |-> o.kind, status |-> o.status,
                              n |-> o.n, raised |-> "none"]
          /\ exit_status' =
                IF o.kind = "exception" THEN "uncaught exception"
                ELSE IF o.status # 200 THEN "exit 1"
                ELSE "exited"
    /\ mpc' = "done"
    /\ UNCHANGED <<entry, api_key, city_i, locations, loc_i, files,
                   fetchVars, processVars>>

\* collector = AirQualityDataCollector(): ValueError without a key, which
\* main() catches and logs before it ends.
CollectorInit ==
    /\ entry = "collector" /\ mpc = "start"
    /\ IF api_key = "absent"
       THEN mpc' = "done" /\ exit_status' = "configuration error"
       ELSE mpc' = "cities" /\ UNCHANGED exit_status
    /\ UNCHANGED <<entry, api_key, city_i, locations, loc_i, http_calls,
                   files, last_outcome, fetchVars, processVars>>

\* One pass of "for city in cities" up to the inner loop: get_locations,
\* then skip the city when nothing came back.
MainLookup ==
    /\ entry = "collector" /\ mpc = "cities" /\ city_i <= Len(Cities)
    /\ \E o \in LocationOutcomes :
          LET r == GetLocations(o)
          IN /\ http_calls' = http_calls + 1
             /\ last_outcome' = [kind |-> o.kind, status |-> o.status,
                                 n |-> o.n, raised |-> r.raised]
             /\ locations' = r.value
             /\ loc_i' = 1
             /\ IF r.raised # "none"
                THEN /\ mpc' = "done" /\ exit_status' = "unexpected error"
                     /\ UNCHANGED city_i
                ELSE /\ UNCHANGED exit_status
                     /\ IF Len(r.value) = 0
                        THEN mpc' = "cities" /\ city_i' = city_i + 1
                        ELSE mpc' = "locations" /\ UNCHANGED city_i
    /\ UNCHANGED <<entry, api_key, files, fetchVars, processVars>>

\* One pass of "for loc in locations": fetch_air_quality_data with its
\* default arguments issues between one and max_pages requests for each of
\* the six parameters (the extremes are taken), and the table is saved
\* when it is not empty.  Sixty requests means every page was full.
MainFetch ==
    /\ entry = "collector" /\ mpc = "locations" /\ loc_i <= Len(locations)
    /\ \E k \in {Len(DefaultParameters),
                 Len(DefaultParameters) * DefaultMaxPages},
          nonempty \in BOOLEAN :
          /\ k > Len(DefaultParameters) => nonempty
          /\ http_calls' = http_calls + k
          /\ files' = IF nonempty
                      THEN files \cup {<<Cities[city_i], locations[loc_i].name>>}
                      ELSE files
    /\ IF loc_i = Len(locations)
       THEN mpc' = "cities" /\ city_i' = city_i + 1 /\ loc_i' = 1
       ELSE UNCHANGED <<mpc, city_i>> /\ loc_i' = loc_i + 1
    /\ UNCHANGED <<entry, api_key, locations, last_outcome, exit_status,
                   fetchVars, processVars>>

\* The city loop is over: main() returns.
MainDone ==
    /\ entry = "collector" /\ mpc = "cities" /\ city_i > Len(Cities)
    /\ mpc' = "done" /\ exit_status' = "exited"
    /\ UNCHANGED <<entry, api_key, city_i, locations, loc_i, http_calls,
                   files, last_outcome, fetchVars, processVars>>

NextMain ==
    ListLocations \/ CollectorInit \/ MainLookup \/ MainFetch \/ MainDone

SpecMain == InitMain /\ [][NextMain]_vars

----------------------------------------------------------------------------
(* Claims about the entry points (SpecMain) *)

LookupFailed ==
    \/ last_outcome.kind = "exception"
    \/ last_outcome.kind = "response" /\ last_outcome.status # 200

\* C9: get_locations never raises to its caller; when its request ends in
\* an exception or an error status, or succeeds with zero results, it
\* returns the empty sequence.
C9_LookupNeverRaises ==
    (entry = "collector" /\ last_outcome.kind # "none") =>
        /\ last_outcome.raised = "none"
        /\ exit_status # "unexpected error"
        /\ (LookupFailed \/ last_outcome.n = 0) => locations = <<>>

C9_Witness ==
    /\ entry = "collector" /\ mpc = "cities" /\ city_i = 2
    /\ last_outcome.kind = "response" /\ last_outcome.status = 500
    /\ last_outcome.raised = "none"
    /\ locations = <<>>

\* C10: with the API key absent from the environment, no entry point
\* issues an HTTP request.
C10_NoRequestWithoutKey ==
    api_key = "absent" => http_calls = 0

====
